---- MODULE Spec2Model ----
(***************************************************************************)
(* Model of devtools/generate_graphics_structure.py: the PNG -> u8g2       *)
(* bitmap codec, the frame canonicalisation of the Aseprite export, and    *)
(* the library / expression pipeline of GraphicsStructureGenerator.        *)
(***************************************************************************)
EXTENDS Integers, Sequences, FiniteSets, TLC

(* ------------------------------ bounds --------------------------------- *)
\* widest and tallest raster handed to the codec, and the most "on" pixels
\* of a partially lit raster (the fully lit raster is always included)
MaxW == 2
MaxH == 9
MaxOn == 2
\* largest frame number the editor embeds in a file name, and the most frame
\* files of one export handed to the canonicalisation
MaxIndex == 11
MaxFrames == 3

(* ------------------------------ values --------------------------------- *)
\* aseprite_cmd is None when no executable answers --version
None == "None"
\* an exported file that Image.open cannot decode
Corrupt == [decodable |-> FALSE]

(* =========================== Bitmap codec ============================== *)
\* A decoded mode-'1' image: its size and the set of white (255) pixels.
Grid(w, h) == (0 .. w - 1) \X (0 .. h - 1)

RECURSIVE SubsetsUpTo(_, _)
SubsetsUpTo(S, k) ==
    IF k = 0 THEN {{}}
    ELSE LET prev == SubsetsUpTo(S, k - 1)
         IN  prev \cup {s \cup {p} : s \in prev, p \in S}

Rasters ==
    UNION {
        {[decodable |-> TRUE, width |-> w, height |-> h, on |-> o] :
            o \in SubsetsUpTo(Grid(w, h), MaxOn) \cup {Grid(w, h)}} :
        w \in 1 .. MaxW, h \in 1 .. MaxH}

\* img.getpixel((x, y)) on a mode-'1' image: 0 = black, 255 = white
getpixel(img, x, y) == IF <<x, y>> \in img.on THEN 255 ELSE 0

\* byte_val |= (1 << bit)
\* (variant: bit 0 taken as the most significant bit)
SetBitMsbFirst(byte_val, bit) ==
    IF (byte_val \div (2 ^ (7 - bit))) % 2 = 1 THEN byte_val
    ELSE byte_val + 2 ^ (7 - bit)
SetBit(byte_val, bit) ==
    IF (byte_val \div (2 ^ bit)) % 2 = 1 THEN byte_val ELSE byte_val + 2 ^ bit

\* lines 381-387: y = y_byte * 8 + bit; the pixel is sampled only when
\* y < height, and it counts as "on" when it is not black
\* (variant: no row test, the row wraps around to the top)
PixelOnWrap(img, x, y) == getpixel(img, x, y % img.height) # 0
PixelOn(img, x, y) == y < img.height /\ getpixel(img, x, y) # 0

\* range((height + 7) // 8): the byte groups of one column
NumByteRows(height) == (height + 7) \div 8

\* for bit in range(8): ... one packed byte
RECURSIVE PackByte(_, _, _, _, _)
PackByte(img, x, y_byte, bit, byte_val) ==
    IF bit >= 8 THEN byte_val
    ELSE PackByte(img, x, y_byte, bit + 1,
                  IF PixelOn(img, x, y_byte * 8 + bit)
                  THEN SetBit(byte_val, bit)
                  ELSE byte_val)

\* for y_byte in range((height + 7) // 8): bitmap_data.append(byte_val)
RECURSIVE PackColumn(_, _, _, _)
PackColumn(img, x, y_byte, bitmap_data) ==
    IF y_byte >= NumByteRows(img.height) THEN bitmap_data
    ELSE PackColumn(img, x, y_byte + 1,
                    Append(bitmap_data, PackByte(img, x, y_byte, 0, 0)))

\* for x in range(width): ...
RECURSIVE PackImage(_, _, _)
PackImage(img, x, bitmap_data) ==
    IF x >= img.width THEN bitmap_data
    ELSE PackImage(img, x + 1, PackColumn(img, x, 0, bitmap_data))

\* convert_png_to_u8g2_format: an undecodable file raises inside the try and
\* yields (False, 0, 0) with no output file; otherwise the packed bytes are
\* written and (True, width, height) is returned
convert_png_to_u8g2_format(png) ==
    IF ~png.decodable
    THEN [success |-> FALSE, width |-> 0, height |-> 0, data |-> <<>>]
    ELSE [success |-> TRUE, width |-> png.width, height |-> png.height,
          data |-> PackImage(png, 0, <<>>)]

(* ===================== Frame canonicalisation ========================== *)
\* A frame file "Frame_<num_str>.png" is named by num_str, a digit sequence.
RECURSIVE ToDigits(_)
ToDigits(n) == IF n < 10 THEN <<n>> ELSE Append(ToDigits(n \div 10), n % 10)

\* the names the editor and the renaming can produce for the numbers
\* 0..MaxIndex: plain decimal, and zero-padded to two digits
FrameNames ==
    {ToDigits(n) : n \in 0 .. MaxIndex} \cup {<<0, n>> : n \in 0 .. 9}

\* int(stem.split('_')[1])
RECURSIVE ParseInt(_, _)
ParseInt(num_str, acc) ==
    IF num_str = <<>> THEN acc
    ELSE ParseInt(Tail(num_str), acc * 10 + Head(num_str))
extract_frame_number(name) == ParseInt(name, 0)

\* f"{idx:02d}"
FormatIdx(idx) == IF idx < 10 THEN <<0, idx>> ELSE ToDigits(idx)

\* png_files.sort(key=extract_frame_number)
\* (variant: the files sorted by name, as strings)
RECURSIVE LexPad(_, _)
LexPad(num_str, w) ==
    IF w = 0 THEN 0
    ELSE IF num_str = <<>> THEN 0
    ELSE (Head(num_str) + 1) * (11 ^ (w - 1)) + LexPad(Tail(num_str), w - 1)
SortKeyLexicographic(name) == LexPad(name, 3)
SortKey(name) == extract_frame_number(name)

RECURSIVE SortByFrameNumber(_)
SortByFrameNumber(files) ==
    IF files = {} THEN <<>>
    ELSE LET first == CHOOSE f \in files :
                        \A g \in files : SortKey(f) <= SortKey(g)
         IN  <<first>> \o SortByFrameNumber(files \ {first})

\* old_file.rename(new_name): the target is replaced when it exists
Rename(dir, old, new) ==
    [n \in (DOMAIN dir \ {old}) \cup {new} |->
        IF n = new THEN dir[old] ELSE dir[n]]

\* lines 323-328: the renaming loop; a rename of a file that is gone raises
\* and the export returns [] (line 339)
RECURSIVE RenameAll(_, _, _, _)
RenameAll(dir, png_files, idx, renamed_files) ==
    IF idx >= Len(png_files)
    THEN [dir |-> dir, files |-> renamed_files, raised |-> FALSE]
    ELSE LET old_file == png_files[idx + 1]
             new_name == FormatIdx(idx)
         IN  IF old_file = new_name
             THEN RenameAll(dir, png_files, idx + 1,
                            Append(renamed_files, new_name))
             ELSE IF old_file \notin DOMAIN dir
             THEN [dir |-> dir, files |-> <<>>, raised |-> TRUE]
             ELSE RenameAll(Rename(dir, old_file, new_name), png_files,
                            idx + 1, Append(renamed_files, new_name))

\* lines 310-331: glob, numeric sort, renaming
Canonicalize(dir) == RenameAll(dir, SortByFrameNumber(DOMAIN dir), 0, <<>>)

(* ======================= Expression descriptor ========================= *)
\* A Description.ini: whether the file exists, whether it still carries its
\* comment lines, and its sections (section -> key -> value).  Numbers are
\* written by str(); AnimationFPS is <<whole>> or <<whole, tenth>>.
NoDescription == [exists |-> FALSE]

\* lines 96-123: the generated default
DefaultDescription ==
    [exists |-> TRUE, comments |-> TRUE,
     sections |->
        [Loop |-> [Type |-> "IdleBlink", AnimationFPS |-> <<20>>,
                   IdleTimeMinMS |-> 1000, IdleTimeMaxMS |-> 3000],
         Dimensions |-> [Width |-> 0, Height |-> 0]]]

\* lines 89-127: generate_expression_description
\* (variants: the default written over an existing file; nothing written)
GenerateAlways(d) == DefaultDescription
GenerateNever(d) == d
generate_expression_description(d) ==
    IF d.exists THEN d ELSE DefaultDescription

\* config[section][key] = value
SetKey(rec, k, v) == [x \in DOMAIN rec \cup {k} |-> IF x = k THEN v ELSE rec[x]]

\* fps is a rational <<num, den>>, or <<>> for None
NoFps == <<>>
\* str(int(fps)) if fps == int(fps) else f"{fps:.1f}"
FormatFps(fps) ==
    IF fps[1] % fps[2] = 0
    THEN <<fps[1] \div fps[2]>>
    ELSE LET tenths == (20 * fps[1] + fps[2]) \div (2 * fps[2])
         IN  <<tenths \div 10, tenths % 10>>

\* (variant: the rate is not written)
UpdateKeepingFps(d, width, height, fps) ==
    IF ~d.exists THEN d
    ELSE LET dims0 == IF "Dimensions" \in DOMAIN d.sections
                      THEN d.sections.Dimensions ELSE <<>>
             dims1 == SetKey(SetKey(dims0, "Width", width), "Height", height)
         IN  [exists |-> TRUE, comments |-> FALSE,
              sections |-> SetKey(d.sections, "Dimensions", dims1)]

\* (variant: the Dimensions section is written anew, whatever it held)
UpdateFreshDimensions(d, width, height, fps) ==
    IF ~d.exists THEN d
    ELSE LET s1 == SetKey(d.sections, "Dimensions",
                          [Width |-> width, Height |-> height])
             s2 == IF fps # NoFps /\ "Loop" \in DOMAIN s1
                   THEN SetKey(s1, "Loop",
                               SetKey(s1.Loop, "AnimationFPS", FormatFps(fps)))
                   ELSE s1
         IN  [exists |-> TRUE, comments |-> FALSE, sections |-> s2]

\* lines 139-165: update_description_dimensions; configparser writes the
\* sections back without the comment lines
update_description_dimensions(d, width, height, fps) ==
    IF ~d.exists THEN d
    ELSE LET s0 == d.sections
             dims0 == IF "Dimensions" \in DOMAIN s0 THEN s0.Dimensions ELSE <<>>
             dims1 == SetKey(SetKey(dims0, "Width", width), "Height", height)
             s1 == SetKey(s0, "Dimensions", dims1)
             s2 == IF fps # NoFps /\ "Loop" \in DOMAIN s1
                   THEN SetKey(s1, "Loop",
                               SetKey(s1.Loop, "AnimationFPS", FormatFps(fps)))
                   ELSE s1
         IN  [exists |-> TRUE, comments |-> FALSE, sections |-> s2]

(* ========================= Frame set converter ========================= *)
\* The Frames directory of an expression: the .bin artifacts by frame name,
\* and the transient _temp_png directory with its exported images.
NoTemp == [exists |-> FALSE, files |-> <<>>]
EmptyTemp == [exists |-> TRUE, files |-> <<>>]
NoFrames == [exists |-> FALSE, bins |-> <<>>, temp |-> NoTemp]
EmptyFrames == [exists |-> TRUE, bins |-> <<>>, temp |-> NoTemp]

\* A packed artifact: the bytes on disk; width, height and gen record which
\* raster it was packed from and whether this run wrote it.
Artifact(r, gen) ==
    [data |-> r.data, width |-> r.width, height |-> r.height, gen |-> gen]

\* lines 417-428: the conversion loop over png_files
KeepFirstDims(count, first, new) == IF count = 1 THEN new ELSE first

RECURSIVE ConvertLoop(_, _, _, _)
ConvertLoop(png_files, i, files, acc) ==
    IF i > Len(png_files) THEN acc
    ELSE LET name == png_files[i]
             r == IF name \in DOMAIN files
                  THEN convert_png_to_u8g2_format(files[name])
                  ELSE convert_png_to_u8g2_format(Corrupt)
         IN  IF r.success
             THEN ConvertLoop(png_files, i + 1, files,
                    [bins |-> SetKey(acc.bins, name, Artifact(r, "new")),
                     count |-> acc.count + 1,
                     width |-> KeepFirstDims(acc.count + 1, acc.width, r.width),
                     height |-> KeepFirstDims(acc.count + 1, acc.height, r.height)])
             ELSE ConvertLoop(png_files, i + 1, files, acc)

\* lines 430-443: unlink every png file, then rmdir the directory, which
\* succeeds only when it is empty
Range(seq) == {seq[i] : i \in DOMAIN seq}
CleanupTemp(temp, png_files) ==
    IF png_files = <<>> THEN temp
    ELSE LET left == [n \in DOMAIN temp.files \ Range(png_files) |-> temp.files[n]]
         IN  IF DOMAIN left = {} THEN NoTemp
             ELSE [exists |-> TRUE, files |-> left]

\* lines 412-445: process_and_convert_frames
process_and_convert_frames(png_files, fdir) ==
    LET r == ConvertLoop(png_files, 1, fdir.temp.files,
                         [bins |-> fdir.bins, count |-> 0,
                          width |-> 0, height |-> 0])
    IN  [frames |-> [exists |-> TRUE, bins |-> r.bins,
                     temp |-> CleanupTemp(fdir.temp, png_files)],
         count |-> r.count, width |-> r.width, height |-> r.height]

(* ======================= Animation export adapter ====================== *)
RECURSIVE Gcd(_, _)
Gcd(a, b) == IF b = 0 THEN a ELSE Gcd(b, a % b)
\* the float num / den
Rational(num, den) == <<num \div Gcd(num, den), den \div Gcd(num, den)>>

DefaultFps == 20
DefaultDurationMs == 50

\* What the editor does when asked for the timing metadata: it exits
\* non-zero, it exceeds the timeout, it leaves a document json.load rejects,
\* a document without frames, a first frame without a duration, or a first
\* frame with a duration in milliseconds.
FpsOutcomes ==
    {[kind |-> k, duration |-> 0] :
        k \in {"nonzero", "timeout", "badjson", "noframes", "noduration"}}
    \cup {[kind |-> "duration", duration |-> d] : d \in {0, 50, 300}}

\* lines 212-266: get_aseprite_fps; left tells whether the temporary
\* metadata file still exists when the function returns
get_aseprite_fps(aseprite_cmd, o) ==
    IF aseprite_cmd = None THEN [fps |-> Rational(DefaultFps, 1), left |-> FALSE]
    ELSE CASE o.kind = "timeout" -> [fps |-> Rational(DefaultFps, 1), left |-> TRUE]
           [] o.kind = "nonzero" -> [fps |-> Rational(DefaultFps, 1), left |-> FALSE]
           [] o.kind = "badjson" -> [fps |-> Rational(DefaultFps, 1), left |-> TRUE]
           [] o.kind = "noframes" -> [fps |-> Rational(DefaultFps, 1), left |-> FALSE]
           [] o.kind = "noduration" ->
                [fps |-> Rational(1000, DefaultDurationMs), left |-> FALSE]
           [] o.kind = "duration" ->
                IF o.duration = 0
                THEN [fps |-> Rational(DefaultFps, 1), left |-> TRUE]
                ELSE [fps |-> Rational(1000, o.duration), left |-> FALSE]

\* temp_png_dir.mkdir(exist_ok=True)
MkTemp(temp) == IF temp.exists THEN temp ELSE EmptyTemp

\* the files the editor writes into the transient directory
WriteFiles(temp, files) ==
    [exists |-> TRUE,
     files |-> [n \in DOMAIN temp.files \cup DOMAIN files |->
                   IF n \in DOMAIN files THEN files[n] ELSE temp.files[n]]]

\* lines 280-341: export_aseprite_frames; o is what the editor did
export_aseprite_frames(aseprite_cmd, o, fdir) ==
    IF aseprite_cmd = None THEN [frames |-> fdir, png_files |-> <<>>]
    ELSE IF o.kind # "ok"
    THEN [frames |-> [fdir EXCEPT !.temp = MkTemp(fdir.temp)],
          png_files |-> <<>>]
    ELSE LET written == IF DOMAIN o.files = {} THEN MkTemp(fdir.temp)
                        ELSE WriteFiles(MkTemp(fdir.temp), o.files)
             c == Canonicalize(written.files)
         IN  [frames |-> [fdir EXCEPT !.temp =
                            IF DOMAIN c.dir = {} THEN EmptyTemp
                            ELSE [exists |-> TRUE, files |-> c.dir]],
              png_files |-> c.files]

(* ============================ Pipeline ================================= *)
\* most animation source files (*.aseprite, *.ase) in one expression
\* directory, and most frames the editor exports for one of them
MaxAnims == 2
MaxExport == 2

\* The graphics tree of the model: Description.ini lists the libraries A and
\* B in this order; A holds the expression a1 and a plain file, B holds the
\* expression b1 when its directory exists before the run.
LibraryNames == <<"A", "B">>
Expressions == {"a1", "b1"}
LibraryOf == [a1 |-> "A", b1 |-> "B"]

\* enabled.lower() == 'true'
Lower(v) == IF v = "True" THEN "true" ELSE v
IsEnabled(v) == Lower(v) = "true"

Configs ==
    {[exists |-> FALSE, has_libraries |-> FALSE, flags |-> [A |-> "false", B |-> "false"]],
     [exists |-> TRUE, has_libraries |-> FALSE, flags |-> [A |-> "false", B |-> "false"]]}
    \cup {[exists |-> TRUE, has_libraries |-> TRUE, flags |-> f] :
            f \in [{"A", "B"} -> {"True", "false"}]}

\* the rasters the editor exports in the pipeline runs
Small == [decodable |-> TRUE, width |-> 1, height |-> 1, on |-> {<<0, 0>>}]
Tall == [decodable |-> TRUE, width |-> 1, height |-> 9, on |-> Grid(1, 9)]
PipelineImages == {Small, Tall, Corrupt}

\* What an expression directory holds before the run: nothing; the
\* descriptor and the artifacts of an earlier run of a 3x3 animation, the
\* descriptor hand-tuned since; or a hand-written descriptor of a still image.
HandEdited ==
    [exists |-> TRUE, comments |-> TRUE,
     sections |->
        [Loop |-> [Type |-> "Loop", AnimationFPS |-> <<12>>],
         Dimensions |-> [Width |-> 3, Height |-> 3]]]
ImageOnly ==
    [exists |-> TRUE, comments |-> FALSE,
     sections |-> [Loop |-> [Type |-> "Image"]]]
StaleArtifact == [data |-> <<7, 7, 7>>, width |-> 3, height |-> 3, gen |-> "old"]
StaleFrames ==
    [exists |-> TRUE,
     bins |-> [n \in {<<0, 0>>, <<0, 1>>, <<0, 2>>} |-> StaleArtifact],
     temp |-> NoTemp]
PrevKinds == {"fresh", "generated", "image"}
PrevDesc(k) ==
    CASE k = "fresh" -> NoDescription
      [] k = "generated" -> HandEdited
      [] k = "image" -> ImageOnly
PrevFrames(k) == IF k = "generated" THEN StaleFrames ELSE NoFrames

\* the files an export writes: n frames numbered from `first`
ExportedFiles(first, contents) ==
    [n \in {ToDigits(first + i - 1) : i \in DOMAIN contents} |->
        contents[extract_frame_number(n) - first + 1]]

RECURSIVE SeqsUpTo(_, _)
SeqsUpTo(S, n) ==
    IF n = 0 THEN {<<>>}
    ELSE LET prev == SeqsUpTo(S, n - 1)
         IN  prev \cup {Append(q, x) : q \in {p \in prev : Len(p) = n - 1}, x \in S}

\* What the editor does when asked to export an animation of expression e:
\* it exits non-zero, it exceeds the timeout, or it writes its frames,
\* numbered from 0 (a1) or from 0 or 9 (b1).  The animations of a1 hold
\* any frames; the animation of b1 is drawn on one canvas and decodes.
FirstNumbers(e) == IF e = "a1" THEN {0} ELSE {0, 9}
FrameSets(e) ==
    IF e = "a1" THEN SeqsUpTo(PipelineImages, MaxExport)
    ELSE SeqsUpTo({Small}, MaxExport)
ExportOutcomes ==
    [e \in Expressions |->
        {[kind |-> k, files |-> <<>>] : k \in {"nonzero", "timeout"}}
        \cup {[kind |-> "ok", files |-> ExportedFiles(first, c)] :
                first \in FirstNumbers(e), c \in FrameSets(e)}]

VARIABLES
    c_png, c_result,      \* codec: the image file and what the conversion returned
    k_dir, k_result,      \* canonicalisation: the directory and what it returned
    u_desc, u_result,     \* descriptor update: the file and what the call was
    config,               \* graphics_dir/Description.ini
    libdir,               \* which library directories exist
    items,                \* the entries of each library directory
    anims,                \* the number of animation files of each expression
    prev,                 \* what each expression directory held before the run
    desc,                 \* the Description.ini of each expression
    frames,               \* the Frames directory of each expression
    tmp_json,             \* whether the temporary metadata file of the latest
                          \* get_aseprite_fps call still exists
    pc,                   \* where the run is
    enabled_libraries, aseprite_cmd,
    lib_i, item_i, anim_i, \* positions of the three loops
    fps, png_files,       \* locals of the animation loop body
    last_conv             \* what the editor did at the last export, then the
                          \* frame set the last step converted and the result

cvars == <<c_png, c_result>>
kvars == <<k_dir, k_result>>
uvars == <<u_desc, u_result>>
fsvars == <<config, libdir, items, anims, prev, desc, frames, tmp_json>>
runvars == <<pc, enabled_libraries, aseprite_cmd, lib_i, item_i, anim_i,
             fps, png_files, last_conv>>
vars == <<cvars, kvars, uvars, fsvars, runvars>>

NoConv == [ran |-> FALSE]
NoResult == [done |-> FALSE]

CodecIdle == c_png = Corrupt /\ c_result = NoResult
CanonIdle == k_dir = <<>> /\ k_result = NoResult
UpdateIdle == u_desc = NoDescription /\ u_result = NoResult
PipelineIdle ==
    /\ config = [exists |-> FALSE, has_libraries |-> FALSE,
                 flags |-> [A |-> "false", B |-> "false"]]
    /\ libdir = [A |-> FALSE, B |-> FALSE]
    /\ items = [A |-> <<>>, B |-> <<>>]
    /\ anims = [e \in Expressions |-> 0]
    /\ prev = [e \in Expressions |-> "fresh"]
    /\ desc = [e \in Expressions |-> NoDescription]
    /\ frames = [e \in Expressions |-> NoFrames]
    /\ tmp_json = FALSE
    /\ pc = "idle"
    /\ enabled_libraries = <<>>
    /\ aseprite_cmd = "unset"
    /\ lib_i = 0 /\ item_i = 0 /\ anim_i = 0
    /\ fps = NoFps /\ png_files = <<>>
    /\ last_conv = NoConv

(* ---------------------------- codec runs ------------------------------- *)
InitCodec ==
    /\ c_png \in Rasters \cup {Corrupt}
    /\ c_result = NoResult
    /\ CanonIdle /\ UpdateIdle /\ PipelineIdle

\* one call of convert_png_to_u8g2_format
Convert ==
    /\ ~c_result.done
    /\ c_result' = [done |-> TRUE, ret |-> convert_png_to_u8g2_format(c_png)]
    /\ UNCHANGED <<c_png, kvars, uvars, fsvars, runvars>>

NextCodec == Convert
SpecCodec == InitCodec /\ [][NextCodec]_vars

(* ------------------------ canonicalisation runs ------------------------ *)
\* the exported files carry their original frame number as content
DistinctIndices(names) ==
    \A a, b \in names : extract_frame_number(a) = extract_frame_number(b) => a = b

InitCanon ==
    /\ \E names \in SubsetsUpTo(FrameNames, MaxFrames) :
          /\ DistinctIndices(names)
          /\ k_dir = IF names = {} THEN <<>>
                     ELSE [n \in names |-> extract_frame_number(n)]
    /\ k_result = NoResult
    /\ CodecIdle /\ UpdateIdle /\ PipelineIdle

\* lines 310-331 on the files of k_dir
CanonicalizeStep ==
    /\ ~k_result.done
    /\ LET c == Canonicalize(k_dir)
       IN  /\ k_dir' = c.dir
           /\ k_result' = [done |-> TRUE, files |-> c.files, raised |-> c.raised,
                           before |-> k_dir]
    /\ UNCHANGED <<cvars, uvars, fsvars, runvars>>

NextCanon == CanonicalizeStep
SpecCanon == InitCanon /\ [][NextCanon]_vars

(* ----------------------- descriptor update runs ------------------------ *)
\* The descriptors an update may find: none, the generated default, the
\* hand-tuned one, the hand-written ones of a still image (no Dimensions
\* section) and of a bare size (no Loop section), and one that carries a
\* section and keys of its own.
SizeOnly ==
    [exists |-> TRUE, comments |-> FALSE,
     sections |-> [Dimensions |-> [Width |-> 3, Height |-> 3]]]
Extended ==
    [exists |-> TRUE, comments |-> TRUE,
     sections |->
        [Loop |-> [Type |-> "Loop", AnimationFPS |-> <<12>>, Pause |-> 5],
         Dimensions |-> [Width |-> 3, Height |-> 3, Depth |-> 1],
         Author |-> [Name |-> "dn"]]]
UpdateDescriptions ==
    {NoDescription, DefaultDescription, HandEdited, ImageOnly, SizeOnly, Extended}
UpdateWidths == {1, 3, 128}
UpdateHeights == {3, 64}
\* fps=None, 20.0, 1000/300 and 12.5
UpdateRates == {NoFps, Rational(20, 1), Rational(1000, 300), Rational(25, 2)}

InitUpdate ==
    /\ u_desc \in UpdateDescriptions
    /\ u_result = NoResult
    /\ CodecIdle /\ CanonIdle /\ PipelineIdle

\* one call of update_description_dimensions
UpdateStep ==
    /\ ~u_result.done
    /\ \E width \in UpdateWidths, height \in UpdateHeights, rate \in UpdateRates :
          /\ u_desc' = update_description_dimensions(u_desc, width, height, rate)
          /\ u_result' = [done |-> TRUE, width |-> width, height |-> height,
                          fps |-> rate, before |-> u_desc]
    /\ UNCHANGED <<cvars, kvars, fsvars, runvars>>

NextUpdate == UpdateStep
SpecUpdate == InitUpdate /\ [][NextUpdate]_vars

(* --------------------------- pipeline runs ----------------------------- *)
Init ==
    /\ config \in Configs
    /\ \E b \in BOOLEAN :
          /\ libdir = [A |-> TRUE, B |-> b]
          /\ items = [A |-> <<"a1", "notes.txt">>,
                      B |-> IF b THEN <<"b1">> ELSE <<>>]
          /\ prev \in [Expressions -> PrevKinds]
          /\ anims \in [Expressions -> 0 .. MaxAnims]
          \* b1 is new: at most one animation file, nothing from an earlier run
          /\ anims["b1"] <= 1 /\ prev["b1"] = "fresh"
          /\ b = FALSE => anims["b1"] = 0
    /\ desc = [e \in Expressions |-> PrevDesc(prev[e])]
    /\ frames = [e \in Expressions |-> PrevFrames(prev[e])]
    /\ tmp_json = FALSE
    /\ pc = "start"
    /\ enabled_libraries = <<>>
    /\ aseprite_cmd = "unset"
    /\ lib_i = 0 /\ item_i = 0 /\ anim_i = 0
    /\ fps = NoFps /\ png_files = <<>>
    /\ last_conv = NoConv
    /\ CodecIdle /\ CanonIdle /\ UpdateIdle

\* lines 47-65: read_libraries_config; sys.exit(1) without the file or
\* without its [Libraries] section
RECURSIVE EnabledFrom(_, _)
EnabledFrom(flags, names) ==
    IF names = <<>> THEN <<>>
    ELSE (IF IsEnabled(flags[Head(names)]) THEN <<Head(names)>> ELSE <<>>)
         \o EnabledFrom(flags, Tail(names))

\* (variant: only a missing file is fatal)
ConfigFileExists(c) == c.exists
ConfigUsable(c) == c.exists /\ c.has_libraries

ReadLibrariesConfig ==
    /\ pc = "start"
    /\ IF ConfigUsable(config)
       THEN /\ enabled_libraries' = EnabledFrom(config.flags, LibraryNames)
            /\ pc' = "create_dirs"
       ELSE /\ pc' = "exited"
            /\ UNCHANGED enabled_libraries
    /\ UNCHANGED <<cvars, kvars, uvars, fsvars, aseprite_cmd, lib_i, item_i, anim_i,
                   fps, png_files, last_conv>>

\* lines 70-79: create_library_directories
CreateLibraryDirectories ==
    /\ pc = "create_dirs"
    /\ libdir' = [l \in DOMAIN libdir |->
                    libdir[l] \/ l \in Range(enabled_libraries)]
    /\ pc' = "find_aseprite"
    /\ UNCHANGED <<cvars, kvars, uvars, config, items, anims, prev, desc, frames,
                   tmp_json, enabled_libraries, aseprite_cmd, lib_i, item_i,
                   anim_i, fps, png_files, last_conv>>

\* lines 178-199: find_aseprite_executable returns a path or None
FindAsepriteExecutable ==
    /\ pc = "find_aseprite"
    /\ aseprite_cmd' \in {"aseprite", None}
    /\ lib_i' = 1
    /\ pc' = "library"
    /\ UNCHANGED <<cvars, kvars, uvars, fsvars, enabled_libraries, item_i, anim_i,
                   fps, png_files, last_conv>>

\* lines 534-537 and 455-459: the next enabled library, or the end of run
NextLibrary ==
    /\ pc = "library"
    /\ lib_i <= Len(enabled_libraries)
    /\ IF libdir[enabled_libraries[lib_i]]
       THEN item_i' = 1 /\ pc' = "item" /\ UNCHANGED lib_i
       ELSE lib_i' = lib_i + 1 /\ UNCHANGED <<item_i, pc>>
    /\ UNCHANGED <<cvars, kvars, uvars, fsvars, enabled_libraries, aseprite_cmd,
                   anim_i, fps, png_files, last_conv>>

RunComplete ==
    /\ pc = "library"
    /\ lib_i > Len(enabled_libraries)
    /\ pc' = "done"
    /\ UNCHANGED <<cvars, kvars, uvars, fsvars, enabled_libraries, aseprite_cmd,
                   lib_i, item_i, anim_i, fps, png_files, last_conv>>

CurrentLibrary == enabled_libraries[lib_i]
CurrentItems == items[CurrentLibrary]
CurrentItem == CurrentItems[item_i]
IsDir(item) == item \in Expressions

\* line 462: the directory listing is exhausted
EndOfLibrary ==
    /\ pc = "item"
    /\ item_i > Len(CurrentItems)
    /\ lib_i' = lib_i + 1
    /\ pc' = "library"
    /\ UNCHANGED <<cvars, kvars, uvars, fsvars, enabled_libraries, aseprite_cmd,
                   item_i, anim_i, fps, png_files, last_conv>>

\* lines 463-464: an entry that is no directory is skipped
SkipFile ==
    /\ pc = "item"
    /\ item_i <= Len(CurrentItems)
    /\ ~IsDir(CurrentItem)
    /\ item_i' = item_i + 1
    /\ UNCHANGED <<cvars, kvars, uvars, fsvars, enabled_libraries, aseprite_cmd,
                   pc, lib_i, anim_i, fps, png_files, last_conv>>

\* lines 481-484: rmtree of an existing Frames directory, then mkdir
\* (variant: an existing Frames directory is kept as it is)
KeepOldFrames(fdir) == IF fdir.exists THEN fdir ELSE EmptyFrames
ClearFrames(fdir) == EmptyFrames

\* lines 466-484: the descriptor is generated if needed; an expression
\* without animation files is left at that, otherwise its Frames directory
\* is cleared
StartExpression ==
    /\ pc = "item"
    /\ item_i <= Len(CurrentItems)
    /\ IsDir(CurrentItem)
    /\ LET e == CurrentItem
       IN  /\ desc' = [desc EXCEPT ![e] = generate_expression_description(desc[e])]
           /\ IF anims[e] = 0
              THEN /\ item_i' = item_i + 1
                   /\ UNCHANGED <<frames, anim_i, pc>>
              ELSE /\ frames' = [frames EXCEPT ![e] = ClearFrames(frames[e])]
                   /\ anim_i' = 1
                   /\ pc' = "fps"
                   /\ UNCHANGED item_i
    /\ last_conv' = NoConv
    /\ UNCHANGED <<cvars, kvars, uvars, config, libdir, items, anims, prev, tmp_json,
                   enabled_libraries, aseprite_cmd, lib_i, fps, png_files>>

\* line 487: every animation file of the expression has been handled
EndOfAnimations ==
    /\ pc = "fps"
    /\ anim_i > anims[CurrentItem]
    /\ item_i' = item_i + 1
    /\ pc' = "item"
    /\ last_conv' = NoConv
    /\ UNCHANGED <<cvars, kvars, uvars, fsvars, enabled_libraries, aseprite_cmd,
                   lib_i, anim_i, fps, png_files>>

\* line 491: fps = self.get_aseprite_fps(aseprite_file, aseprite_cmd)
GetFps ==
    /\ pc = "fps"
    /\ anim_i <= anims[CurrentItem]
    /\ \E o \in FpsOutcomes :
          LET r == get_aseprite_fps(aseprite_cmd, o)
          IN  /\ fps' = r.fps
              /\ tmp_json' = r.left
    /\ pc' = "export"
    /\ last_conv' = NoConv
    /\ UNCHANGED <<cvars, kvars, uvars, config, libdir, items, anims, prev, desc,
                   frames, enabled_libraries, aseprite_cmd, lib_i, item_i,
                   anim_i, png_files>>

\* line 494: png_files = self.export_aseprite_frames(...)
Export ==
    /\ pc = "export"
    /\ \E o \in ExportOutcomes[CurrentItem] :
          LET r == export_aseprite_frames(aseprite_cmd, o, frames[CurrentItem])
          IN  /\ frames' = [frames EXCEPT ![CurrentItem] = r.frames]
              /\ png_files' = r.png_files
              /\ last_conv' = [ran |-> FALSE,
                               export |-> IF aseprite_cmd = None THEN "skipped"
                                          ELSE o.kind]
    /\ pc' = "convert"
    /\ UNCHANGED <<cvars, kvars, uvars, config, libdir, items, anims, prev, desc,
                   tmp_json, enabled_libraries, aseprite_cmd, lib_i, item_i,
                   anim_i, fps>>

\* lines 496-506: the frames are converted and, when at least one was, the
\* descriptor is updated; an empty export touches nothing
\* (variant: neither `if png_files` nor `if converted_count > 0`)
ConvertUnguarded(files, fdir, d, rate) ==
    LET r == process_and_convert_frames(files, fdir)
    IN  [frames |-> r.frames, count |-> r.count, width |-> r.width,
         height |-> r.height,
         desc |-> update_description_dimensions(d, r.width, r.height, rate)]
ConvertAndUpdate(files, fdir, d, rate) ==
    IF files # <<>>
    THEN LET r == process_and_convert_frames(files, fdir)
         IN  [frames |-> r.frames, count |-> r.count, width |-> r.width,
              height |-> r.height,
              desc |-> IF r.count > 0
                       THEN update_description_dimensions(d, r.width, r.height, rate)
                       ELSE d]
    ELSE [frames |-> fdir, count |-> 0, width |-> 0, height |-> 0, desc |-> d]

\* (variant: an empty export ends the work on the expression, the remaining
\* animation files are not looked at)
ConvertFramesOrStop ==
    /\ pc = "convert"
    /\ LET e == CurrentItem
           r == ConvertAndUpdate(png_files, frames[e], desc[e], fps)
       IN  /\ frames' = [frames EXCEPT ![e] = r.frames]
           /\ desc' = [desc EXCEPT ![e] = r.desc]
           /\ last_conv' =
                [ran |-> TRUE, export |-> last_conv.export, expr |-> e,
                 input |-> [i \in DOMAIN png_files |->
                              frames[e].temp.files[png_files[i]]],
                 count |-> r.count, width |-> r.width, height |-> r.height]
    /\ IF png_files = <<>>
       THEN item_i' = item_i + 1 /\ pc' = "item" /\ UNCHANGED anim_i
       ELSE anim_i' = anim_i + 1 /\ pc' = "fps" /\ UNCHANGED item_i
    /\ UNCHANGED <<cvars, kvars, uvars, config, libdir, items, anims, prev, tmp_json,
                   enabled_libraries, aseprite_cmd, lib_i, fps, png_files>>

ConvertFrames ==
    /\ pc = "convert"
    /\ LET e == CurrentItem
           r == ConvertAndUpdate(png_files, frames[e], desc[e], fps)
       IN  /\ frames' = [frames EXCEPT ![e] = r.frames]
           /\ desc' = [desc EXCEPT ![e] = r.desc]
           /\ last_conv' =
                [ran |-> TRUE, export |-> last_conv.export, expr |-> e,
                 input |-> [i \in DOMAIN png_files |->
                              frames[e].temp.files[png_files[i]]],
                 count |-> r.count, width |-> r.width, height |-> r.height]
    /\ anim_i' = anim_i + 1
    /\ pc' = "fps"
    /\ UNCHANGED <<cvars, kvars, uvars, config, libdir, items, anims, prev, tmp_json,
                   enabled_libraries, aseprite_cmd, lib_i, item_i, fps,
                   png_files>>

Next ==
    \/ ReadLibrariesConfig
    \/ CreateLibraryDirectories
    \/ FindAsepriteExecutable
    \/ NextLibrary
    \/ RunComplete
    \/ EndOfLibrary
    \/ SkipFile
    \/ StartExpression
    \/ EndOfAnimations
    \/ GetFps
    \/ Export
    \/ ConvertFrames

Spec == Init /\ [][Next]_vars

(* ======================= Properties: bitmap codec ====================== *)
CeilDiv8(h) == IF h % 8 = 0 THEN h \div 8 ELSE h \div 8 + 1
BitOf(byte, b) == (byte \div (2 ^ b)) % 2

\* C1: for every raster of width W and height H the conversion outputs
\* exactly W * ceil(H/8) bytes, and bit b (0 = LSB) of the byte at position
\* x * ceil(H/8) + yb is set iff row yb*8+b is below H and the pixel
\* (x, yb*8+b) is on; bits of rows at or beyond H are 0.
C1_EncodeLayout ==
    (c_result.done /\ c_png.decodable) =>
        LET W == c_png.width
            H == c_png.height
            data == c_result.ret.data
        IN  /\ c_result.ret.success
            /\ c_result.ret.width = W /\ c_result.ret.height = H
            /\ Len(data) = W * CeilDiv8(H)
            /\ \A x \in 0 .. W - 1 : \A yb \in 0 .. CeilDiv8(H) - 1 :
                  LET byte == data[x * CeilDiv8(H) + yb + 1]
                  IN  /\ byte \in 0 .. 255
                      /\ \A b \in 0 .. 7 :
                            (BitOf(byte, b) = 1) <=>
                                (yb * 8 + b < H /\ <<x, yb * 8 + b>> \in c_png.on)

\* a 9-row raster whose top row is lit and whose row 8 is dark: the second
\* byte of column 0 has padding bits only
C1_Witness ==
    /\ c_result.done /\ c_png.decodable
    /\ c_png.height = 9 /\ c_png.width = 2
    /\ <<0, 0>> \in c_png.on /\ <<0, 8>> \notin c_png.on
    /\ c_result.ret.data[2] = 0

\* the decoder of the packed format: column-major, 8 vertical pixels per
\* byte, LSB = top row of the group
Decode(data, W, H) ==
    {p \in Grid(W, H) :
        BitOf(data[p[1] * CeilDiv8(H) + (p[2] \div 8) + 1], p[2] % 8) = 1}

\* C2: decoding the packed bytes with the known width and height
\* reconstructs the on/off classification of every pixel.
C2_RoundTrip ==
    (c_result.done /\ c_png.decodable) =>
        Decode(c_result.ret.data, c_png.width, c_png.height) = c_png.on

C2_Witness ==
    /\ c_result.done /\ c_png.decodable
    /\ c_png.height = 9 /\ c_png.width = 2
    /\ c_png.on = {<<1, 8>>, <<0, 3>>}
    /\ c_result.ret.data = <<8, 0, 0, 1>>

(* ==================== Properties: canonicalisation ===================== *)
\* C6: n exported files with distinct frame numbers (any order, offset,
\* gaps, multi-digit numbers) come back as exactly n files numbered 0..n-1,
\* file i holding the frame with the i-th smallest original number; none is
\* lost or overwritten.
C6_Canonical ==
    k_result.done =>
        LET before == k_result.before
            n == Cardinality(DOMAIN before)
            numbers == {before[f] : f \in DOMAIN before}
        IN  /\ ~k_result.raised
            /\ Len(k_result.files) = n
            /\ DOMAIN k_dir = {k_result.files[i] : i \in 1 .. n}
            /\ Cardinality(DOMAIN k_dir) = n
            /\ \A i \in 1 .. n :
                  /\ extract_frame_number(k_result.files[i]) = i - 1
                  /\ Cardinality({m \in numbers : m < k_dir[k_result.files[i]]})
                        = i - 1

\* frames 9, 10 and 3: a gap, an offset and a two-digit number
C6_Witness ==
    /\ k_result.done
    /\ DOMAIN k_result.before = {<<9>>, <<1, 0>>, <<3>>}
    /\ k_dir = [n \in {<<0, 0>>, <<0, 1>>, <<0, 2>>} |->
                    IF n = <<0, 0>> THEN 3 ELSE IF n = <<0, 1>> THEN 9 ELSE 10]

(* ========================= Properties: pipeline ======================== *)
\* the position of an expression in the run, and whether the run is past it
RECURSIVE IndexOf(_, _)
IndexOf(seq, x) ==
    IF seq = <<>> THEN 0
    ELSE IF seq[Len(seq)] = x /\ IndexOf(SubSeq(seq, 1, Len(seq) - 1), x) = 0
    THEN Len(seq)
    ELSE IndexOf(SubSeq(seq, 1, Len(seq) - 1), x)
LibPos(e) == IndexOf(enabled_libraries, LibraryOf[e])
ItemPos(e) == IndexOf(items[LibraryOf[e]], e)
InRun(e) == LibPos(e) > 0 /\ ItemPos(e) > 0
Finished(e) ==
    /\ InRun(e)
    /\ \/ pc = "done"
       \/ pc \in {"library", "item", "fps", "export", "convert"}
          /\ \/ lib_i > LibPos(e)
             \/ lib_i = LibPos(e) /\ pc # "library" /\ item_i > ItemPos(e)
NewArtifacts(e) == {n \in DOMAIN frames[e].bins : frames[e].bins[n].gen = "new"}
OldArtifacts(e) == {n \in DOMAIN frames[e].bins : frames[e].bins[n].gen = "old"}

\* two decodable frames of the set differ in size
MixedDimensions(input) ==
    \E i, j \in DOMAIN input :
        /\ input[i].decodable /\ input[j].decodable
        /\ <<input[i].width, input[i].height>> # <<input[j].width, input[j].height>>

\* C3: a frame set in which two frames differ in size is rejected: nothing
\* is converted and the expression is left with no artifact.
C3_MixedDimensionsRejected ==
    (last_conv.ran /\ MixedDimensions(last_conv.input)) =>
        (last_conv.count = 0 /\ DOMAIN frames[last_conv.expr].bins = {})

\* C4: after the run, the Width and Height of every processed expression
\* equal the size of every artifact in its Frames directory.
C4_DimensionsMatchArtifacts ==
    pc = "done" =>
        \A e \in Expressions : InRun(e) =>
            \A n \in DOMAIN frames[e].bins :
                /\ desc[e].exists
                /\ "Dimensions" \in DOMAIN desc[e].sections
                /\ desc[e].sections.Dimensions.Width = frames[e].bins[n].width
                /\ desc[e].sections.Dimensions.Height = frames[e].bins[n].height

\* C5: with an empty exported frame sequence the conversion counts zero
\* frames and the descriptor (Width, Height, AnimationFPS) stays as it was.
C5_EmptyExportKeepsDescriptor ==
    [][(pc = "convert" /\ png_files = <<>>) =>
          /\ process_and_convert_frames(png_files, frames[CurrentItem]).count = 0
          /\ desc' = desc
          /\ last_conv'.count = 0]_vars

\* an empty export for an expression whose descriptor was hand-tuned
C5_Witness ==
    /\ last_conv.ran /\ last_conv.input = <<>> /\ last_conv.count = 0
    /\ aseprite_cmd = "aseprite"
    /\ desc[last_conv.expr] = HandEdited

\* C7: the default descriptor (Type=IdleBlink, AnimationFPS=20,
\* IdleTimeMinMS=1000, IdleTimeMaxMS=3000, Width=Height=0) is created only
\* when none exists; an existing descriptor is left identical, so a second
\* generation changes nothing.
C7_GenerateOnlyIfAbsent ==
    [][\A e \in Expressions :
          (pc = "item" /\ item_i <= Len(CurrentItems) /\ CurrentItem = e) =>
              /\ desc[e].exists => desc'[e] = desc[e]
              /\ ~desc[e].exists =>
                    desc'[e] =
                        [exists |-> TRUE, comments |-> TRUE,
                         sections |->
                            [Loop |-> [Type |-> "IdleBlink",
                                       AnimationFPS |-> <<20>>,
                                       IdleTimeMinMS |-> 1000,
                                       IdleTimeMaxMS |-> 3000],
                             Dimensions |-> [Width |-> 0, Height |-> 0]]]
              /\ generate_expression_description(desc'[e]) = desc'[e]]_vars

\* the run is past a1, whose hand-tuned descriptor is still in place
C7_Witness ==
    /\ Finished("a1") /\ prev["a1"] = "generated" /\ desc["a1"] = HandEdited

\* C8: without the editor executable the run completes: no frame is ever
\* exported or packed, and at the end every expression directory of every
\* enabled library has a descriptor.
C8_NoEditor ==
    aseprite_cmd = None =>
        /\ png_files = <<>>
        /\ \A e \in Expressions : NewArtifacts(e) = {}
        /\ \A e \in Expressions : Finished(e) => desc[e].exists
        /\ pc = "done" => \A e \in Expressions : InRun(e) => Finished(e)
        /\ pc # "done" => ENABLED Next

\* both libraries enabled, each expression with an animation file and no
\* descriptor before the run
C8_Witness ==
    /\ aseprite_cmd = None /\ pc = "done"
    /\ \A e \in Expressions :
          InRun(e) /\ anims[e] > 0 /\ prev[e] = "fresh" /\ desc[e].exists

C10_TempRemoved ==
    \A e \in Expressions : Finished(e) => ~frames[e].temp.exists

\* C11: every temporary metadata file created by get_aseprite_fps is deleted
\* by the time it returns, on every outcome (duration read, non-zero exit,
\* timeout, unreadable document, no frames, duration zero).
C11_MetadataFileDeleted ==
    pc = "export" => ~tmp_json

\* the position of the run as a tuple that is compared lexicographically:
\* the steps before the loops, the libraries left, the items left in the
\* library, the animation files left in the expression, the step in the
\* loop body
Rank ==
    <<CASE pc = "start" -> 3 [] pc = "create_dirs" -> 2
        [] pc = "find_aseprite" -> 1 [] OTHER -> 0,
      IF pc = "exited" THEN 0 ELSE Len(enabled_libraries) + 1 - lib_i,
      IF pc = "library" THEN 1 ELSE 0,
      IF pc \in {"item", "fps", "export", "convert"}
      THEN Len(CurrentItems) + 1 - item_i ELSE 0,
      IF pc = "item" THEN 1 ELSE 0,
      IF pc \in {"fps", "export", "convert"}
      THEN anims[CurrentItem] + 1 - anim_i ELSE 0,
      CASE pc = "fps" -> 2 [] pc = "export" -> 1 [] OTHER -> 0>>
RECURSIVE LexLess(_, _)
LexLess(a, b) ==
    /\ a # <<>>
    /\ \/ Head(a) < Head(b)
       \/ Head(a) = Head(b) /\ LexLess(Tail(a), Tail(b))
ExportFailures == {"nonzero", "timeout"}

\* C12 step by step: a failing export returns the empty sequence and
\* leaves the artifacts alone; the step after it converts nothing, changes
\* no descriptor and no artifact, and moves on to the next animation file
\* of the same expression; every step brings the run closer to its end,
\* which lies behind the last enabled library, and a run that has not
\* ended can take another step (before a conversion, whose only guard is
\* the position: the conversion returns); a library is left only behind its
\* last entry and an expression only behind its last animation file
C12_Step ==
    /\ (pc = "export" /\ aseprite_cmd # None) =>
          /\ \A k \in ExportFailures :
                LET r == export_aseprite_frames(aseprite_cmd,
                             [kind |-> k, files |-> <<>>], frames[CurrentItem])
                IN  r.png_files = <<>> /\ r.frames.bins = frames[CurrentItem].bins
          /\ last_conv'.export \in ExportFailures => png_files' = <<>>
    /\ (pc = "convert" /\ last_conv.export \in ExportFailures) =>
          /\ png_files = <<>>
          /\ desc' = desc
          /\ \A e \in Expressions : frames'[e].bins = frames[e].bins
          /\ last_conv'.count = 0
          /\ pc' = "fps" /\ anim_i' = anim_i + 1
          /\ lib_i' = lib_i /\ item_i' = item_i
    /\ LexLess(Rank', Rank)
    /\ pc' = "done" => lib_i' = Len(enabled_libraries') + 1
    /\ pc' \notin {"done", "exited", "convert"} => (ENABLED Next)'
    /\ pc = "convert" => last_conv'.count \in 0 .. Len(png_files)
    /\ (pc = "item" /\ lib_i' # lib_i) => item_i > Len(CurrentItems)
    /\ (pc \in {"fps", "export", "convert"} /\ item_i' # item_i) =>
          (pc = "fps" /\ anim_i > anims[CurrentItem])
    /\ lib_i' \in {lib_i, lib_i + 1}
    /\ pc = "item" => item_i' \in {item_i, item_i + 1}
    /\ pc \in {"fps", "export", "convert"} => anim_i' \in {anim_i, anim_i + 1}

\* C12: a timeout or non-zero exit of the editor during the export of one
\* animation file yields an empty frame sequence for that file only: the
\* run continues with the remaining animation files, expressions and
\* enabled libraries and reaches its end.
C12_ExportFailureIsLocal ==
    [][C12_Step]_vars

\* the export of the first of two animation files of a1 timed out and the
\* run stands before the second one
C12_Witness ==
    /\ last_conv.ran /\ last_conv.export = "timeout" /\ last_conv.expr = "a1"
    /\ pc = "fps" /\ anim_i = 2 /\ anims["a1"] = 2
    /\ InRun("b1") /\ ~Finished("b1")

(* ===================== Properties: descriptor update =================== *)
\* the keys of section sec of descriptor d; none when the section is absent
Keys(d, sec) == IF sec \in DOMAIN d.sections THEN DOMAIN d.sections[sec] ELSE {}
\* the keys an update with this rate is to rewrite
Rewritten(rate) ==
    {<<"Dimensions", "Width">>, <<"Dimensions", "Height">>}
    \cup (IF rate # NoFps THEN {<<"Loop", "AnimationFPS">>} ELSE {})
\* every key of d outside `touched` is in e with the same value
KeysKept(d, e, touched) ==
    \A sec \in DOMAIN d.sections :
        /\ sec \in DOMAIN e.sections
        /\ \A k \in DOMAIN d.sections[sec] :
              /\ k \in DOMAIN e.sections[sec]
              /\ <<sec, k>> \notin touched => e.sections[sec][k] = d.sections[sec][k]

\* C13 as stated: on an existing descriptor update_description_dimensions
\* changes only Width and Height (and AnimationFPS when an FPS value is
\* supplied); every other section and key keeps its value and none is added
\* or removed; without a descriptor it creates no file and changes nothing.
C13_OnlyDimensionsRewritten ==
    u_result.done =>
        LET d == u_result.before
        IN  /\ ~d.exists => u_desc = d
            /\ d.exists =>
                  /\ u_desc.exists
                  /\ KeysKept(d, u_desc, Rewritten(u_result.fps))
                  /\ DOMAIN u_desc.sections = DOMAIN d.sections
                  /\ \A sec \in DOMAIN d.sections : Keys(u_desc, sec) = Keys(d, sec)

\* C13, amended: on an existing descriptor the update sets Width and Height
\* in the Dimensions section, which it creates when it is missing, and,
\* when an FPS value is supplied and a Loop section exists, sets
\* AnimationFPS there, creating the key when it is missing; it creates no
\* Loop section; every other section and key keeps its value, none is
\* removed and no other one is added; without a descriptor it creates no
\* file and changes nothing.
C13_DimensionsSetOthersKept ==
    u_result.done =>
        LET d == u_result.before
            fpsSet == u_result.fps # NoFps /\ "Loop" \in DOMAIN d.sections
        IN  /\ ~d.exists => u_desc = d
            /\ d.exists =>
                  /\ u_desc.exists
                  /\ KeysKept(d, u_desc, Rewritten(u_result.fps))
                  /\ DOMAIN u_desc.sections = DOMAIN d.sections \cup {"Dimensions"}
                  /\ \A sec \in DOMAIN u_desc.sections :
                        Keys(u_desc, sec) =
                            Keys(d, sec)
                            \cup (IF sec = "Dimensions" THEN {"Width", "Height"} ELSE {})
                            \cup (IF sec = "Loop" /\ fpsSet THEN {"AnimationFPS"} ELSE {})
                  /\ u_desc.sections.Dimensions.Width = u_result.width
                  /\ u_desc.sections.Dimensions.Height = u_result.height
                  /\ fpsSet => u_desc.sections.Loop.AnimationFPS = FormatFps(u_result.fps)

\* the still-image descriptor, which had no Dimensions section and no
\* AnimationFPS key, after an update with 12.5 frames per second
C13_Witness ==
    /\ u_result.done /\ u_result.before = ImageOnly
    /\ u_result.fps = Rational(25, 2)
    /\ u_desc.sections =
          [Loop |-> [Type |-> "Image", AnimationFPS |-> <<12, 5>>],
           Dimensions |-> [Width |-> u_result.width, Height |-> u_result.height]]

(* ================== Properties: pipeline, error handling =============== *)
\* C14: if the library configuration file is missing or has no Libraries
\* section, the run halts with a failure status before any directory or
\* file is created, modified or deleted.
C14_ConfigMissingHalts ==
    (~config.exists \/ ~config.has_libraries) =>
        /\ pc \in {"start", "exited"}
        /\ pc = "start" => ENABLED Next
        /\ pc = "exited" => ~ENABLED Next
        /\ libdir = [A |-> TRUE, B |-> items["B"] # <<>>]
        /\ desc = [e \in Expressions |-> PrevDesc(prev[e])]
        /\ frames = [e \in Expressions |-> PrevFrames(prev[e])]
        /\ ~tmp_json
        /\ enabled_libraries = <<>> /\ aseprite_cmd = "unset"

\* a configuration file without a Libraries section: the run has exited and
\* the artifacts of the earlier run of a1 are still in place
C14_Witness ==
    /\ pc = "exited" /\ config.exists /\ ~config.has_libraries
    /\ ~libdir["B"]
    /\ prev["a1"] = "generated" /\ anims["a1"] > 0
    /\ frames["a1"] = StaleFrames /\ desc["a1"] = HandEdited

\* the Dimensions section of a descriptor, and the images a conversion step
\* is about to read
Dims(d) ==
    IF d.exists /\ "Dimensions" \in DOMAIN d.sections
    THEN d.sections.Dimensions ELSE <<>>
ConvertInput ==
    [i \in DOMAIN png_files |-> frames[CurrentItem].temp.files[png_files[i]]]

\* C15: the descriptor's Width and Height are rewritten only after every
\* frame of the expression's frame set has been converted; if any frame of
\* the set fails to convert, Width and Height keep their previous values.
C15_DimensionsOnlyAfterFullSuccess ==
    [][pc = "convert" =>
          /\ (\E i \in DOMAIN ConvertInput : ~ConvertInput[i].decodable) =>
                Dims(desc'[CurrentItem]) = Dims(desc[CurrentItem])
          /\ Dims(desc'[CurrentItem]) # Dims(desc[CurrentItem]) =>
                last_conv'.count = Len(png_files)]_vars

\* C16: when one frame of a set cannot be decoded or converted, the
\* conversion of the whole set is aborted: no artifact is written for any
\* later frame of the set (and the run continues with the next expression).
C16_FailedFrameAbortsSet ==
    [][pc = "convert" =>
          \A i, j \in DOMAIN ConvertInput :
              (i < j /\ ~ConvertInput[i].decodable) =>
                  LET name == png_files[j]
                      old == frames[CurrentItem].bins
                      new == frames'[CurrentItem].bins
                  IN  IF name \in DOMAIN old
                      THEN name \in DOMAIN new /\ new[name] = old[name]
                      ELSE name \notin DOMAIN new]_vars

\* the rate extraction is to return for what the editor did: 1000 over the
\* duration of the first frame, or 20 when there is none to be had
ExpectedFps(cmd, o) ==
    IF cmd # None /\ o.kind = "duration" /\ o.duration > 0
    THEN <<1000 \div Gcd(1000, o.duration), o.duration \div Gcd(1000, o.duration)>>
    ELSE <<20, 1>>
\* the stored text v reads as the rate r: exactly when r is whole, to one
\* decimal otherwise
ReadsAs(v, r) ==
    LET tenths == IF Len(v) = 1 THEN 10 * v[1] ELSE 10 * v[1] + v[2]
        diff == 2 * tenths * r[2] - 20 * r[1]
    IN  /\ Len(v) \in {1, 2}
        /\ diff <= r[2] /\ -diff <= r[2]
        /\ r[1] % r[2] = 0 => v = <<r[1] \div r[2]>>

\* C17: whenever the pipeline rewrites an expression's Width and Height
\* after a conversion with at least one converted frame, it also overwrites
\* AnimationFPS (when a Loop section exists) with the rate from
\* get_aseprite_fps, which is 1000/duration_ms of the first frame, or 20
\* when the extraction fails or there is no editor; the value stored
\* before is not kept.
C17_FpsOverwritten ==
    [][/\ (pc = "fps" /\ pc' = "export") =>
             \E o \in FpsOutcomes : fps' = ExpectedFps(aseprite_cmd, o)
       /\ (pc = "fps" /\ anim_i <= anims[CurrentItem]) =>
             \A o \in FpsOutcomes :
                 get_aseprite_fps(aseprite_cmd, o).fps = ExpectedFps(aseprite_cmd, o)
       /\ (pc = "convert" /\ last_conv'.count > 0) =>
             LET after == desc'[CurrentItem]
             IN  /\ Dims(after).Width = last_conv'.width
                 /\ Dims(after).Height = last_conv'.height
                 /\ "Loop" \in DOMAIN desc[CurrentItem].sections =>
                       ReadsAs(after.sections.Loop.AnimationFPS, fps)]_vars

\* a1 came with AnimationFPS = 12 from an earlier run; its animation has a
\* first frame of 300 ms and the descriptor now says 3.3
C17_Witness ==
    /\ last_conv.ran /\ last_conv.count > 0 /\ last_conv.expr = "a1"
    /\ prev["a1"] = "generated" /\ anim_i = 2
    /\ fps = <<10, 3>>
    /\ desc["a1"].sections.Loop.AnimationFPS = <<3, 3>>
    /\ desc["a1"].sections.Dimensions.Width = last_conv.width

====
